---- MODULE Spec2Model ----
(***************************************************************************)
(* YTGrab server.js: the IP based spam protection (clickTracker,           *)
(* blockedIPs, spamProtection, cleanupTracker) and the admin routes that   *)
(* read and write the same two maps.                                       *)
(*                                                                         *)
(* Time is Date.now() in milliseconds, counted from the start of the       *)
(* process.  Every handler body is synchronous, so one action is one       *)
(* handler run.  A POST route runs in the same turn as spamProtection      *)
(* (express.static passes non GET/HEAD requests on at once); a GET route   *)
(* runs in a later turn, because express.static first looks the path up    *)
(* on disk; such a request waits in `pending` in between.                  *)
(***************************************************************************)
EXTENDS Integers, Sequences, FiniteSets, TLC

\* ---------------------------------------------------------------- bounds
\* keys of clients that send ordinary API requests
Clients == {"A"}
\* keys of operators that send requests to the /api/admin/ routes
Operators == {"B"}
\* a key that sends no request in the runs explored
Silent == {"C"}
\* every key
Keys == Clients \cup Operators \cup Silent
\* a JSON number posted as `ip` in the body of an admin request: a Map key
\* that is no string (no request carries it as its own key, getClientIP
\* returns strings)
Numeric == {"7"}
\* the `ip` of an admin request whose body names none (undefined; the
\* handlers treat the empty string alike)
Missing == ""
\* the keys that send requests
Senders == Clients \cup Operators
\* Date.now() advances by one of these amounts between two handler runs
Deltas == {1, 60000, 3600000}
\* number of clock advances explored
MaxAdvances == 2
\* `duration` values (minutes) an operator posts to /api/admin/block
Durations == {1}
\* GET requests that have passed spamProtection and wait for their route
MaxPending == 1
\* requests that have arrived and wait for the event loop to call spamProtection
MaxQueue == 2
\* calls of spamProtection that have begun and not returned
MaxCalls == 2
\* requests counted by the stats middleware, and GET requests to /api/info
\* and /api/download passed on by spamProtection, in the runs explored
MaxCounted == 2

\* keys that hold a WindowEntry or a BlockEntry at one time, in the runs
\* that derive the key from the headers
MaxBuckets == 2

\* ------------------------------------------------------- SPAM_CONFIG
\* maxClicks is 10 in server.js; the model runs the spec's scenario value
maxClicks == 3
timeWindow == 60 * 1000
blockDuration == 60 * 60 * 1000
\* divisor of the remainingMinutes computations
MsPerMinute == 60000
\* remainingMinutes literal of the escalation response
EscalationMinutes == 60

VARIABLES
    now,            \* Date.now()
    advances,       \* clock advances so far
    clickTracker,   \* Map IP -> { clicks, firstClick }: a function on the keys present
    blockedIPs,     \* Map IP -> unblockTime: <<[ip, unblockTime]>> in insertion order
    pending,        \* GET requests between spamProtection and their route handler
    res,            \* the response (or hand-over to next()) of the latest handler run
    named,          \* the keys operators put into the body of an admin request
    probe,          \* which of the observations below is recorded in this run
    arrivals,       \* per key: times of its latest requests that reached "Track clicks"
    admits,         \* per key: times of its latest requests that spamProtection passed on
    firstBlocked,   \* per key: the first "temporarily blocked" answer under its block entry
    clearedSince,   \* entries deleted by clear-blocks, no block created since; else -1
    unblocked,      \* keys unblocked by an operator, not blocked or checked since
    swept,          \* the keys the cleanupTracker run that just ended has deleted
    lazyTracker,    \* clickTracker of the same requests handled with no cleanupTracker run
    lazyBlocked,    \* blockedIPs of the same requests handled with no cleanupTracker run
    queue,          \* keys of the requests waiting for their call of spamProtection
    calls,          \* the calls of spamProtection in progress, statement by statement
    turn,           \* the callback on the JavaScript stack: 0 none, -1 cleanupTracker,
                    \* i > 0 the call calls[i]
    lastStart,      \* per key: firstClick of its latest two WindowEntries
    req,            \* the headers and addresses of the latest request received
    stats,          \* stats: totalRequests, totalDownloads, totalInfoRequests
    passed,         \* GET /api/info and GET /api/download requests passed on so far
    cobalt          \* the run of getCobaltDownloadUrl: instances contacted, lastError, end

vars == <<now, advances, clickTracker, blockedIPs, pending, res, named,
          probe, arrivals, admits, firstBlocked, clearedSince, unblocked, swept,
          lazyTracker, lazyBlocked, queue, calls, turn, lastStart, req, stats,
          passed, cobalt>>

\* ------------------------------------------------------- Map helpers
\* blockedIPs.has(ip)
BlockedHas(b, ip) == \E i \in 1..Len(b) : b[i].ip = ip

\* blockedIPs.get(ip), for a key that is present
BlockedGet(b, ip) == (CHOOSE i \in 1..Len(b) : b[i].ip = ip) \* index
BlockedTime(b, ip) == b[BlockedGet(b, ip)].unblockTime

\* blockedIPs.delete(ip)
BlockedDelete(b, ip) == SelectSeq(b, LAMBDA e : e.ip # ip)

\* blockedIPs.set(ip, t): an existing key keeps its place in the order
BlockedSet(b, ip, t) ==
    IF BlockedHas(b, ip)
    THEN [i \in 1..Len(b) |-> IF b[i].ip = ip THEN [ip |-> ip, unblockTime |-> t] ELSE b[i]]
    ELSE Append(b, [ip |-> ip, unblockTime |-> t])

TrackerDeleteNothing(ct, ip) == ct

TrackerDeleteAll(ct, ip) == <<>>

\* clickTracker.delete(ip)
TrackerDelete(ct, ip) == [k \in (DOMAIN ct) \ {ip} |-> ct[k]]

\* clickTracker.set(ip, { clicks, firstClick })
TrackerSet(ct, ip, c, f) ==
    [k \in (DOMAIN ct) \cup {ip} |->
        IF k = ip THEN [clicks |-> c, firstClick |-> f] ELSE ct[k]]

\* Math.ceil(x / d) for an integer x and d > 0
Ceil(x, d) == -((-x) \div d)

\* ------------------------------------------------------- spamProtection
WindowElapsedAtEnd(t, firstClick) == t - firstClick >= timeWindow

\* now - data.firstClick > SPAM_CONFIG.timeWindow
WindowElapsed(t, firstClick) == t - firstClick > timeWindow

BlockActiveReversed(t, unblockTime) == t > unblockTime

\* now < unblockTime
BlockActive(t, unblockTime) == t < unblockTime

OverLimitOffByOne(clicks) == clicks >= maxClicks
OverLimitLax(clicks) == clicks > maxClicks + 1

\* data.clicks > SPAM_CONFIG.maxClicks
OverLimit(clicks) == clicks > maxClicks

RemainingMinutesSwapped(unblockTime, t) == Ceil(t - unblockTime, MsPerMinute)

RemainingMinutesFloor(unblockTime, t) == (unblockTime - t) \div MsPerMinute

\* Math.ceil((unblockTime - now) / 60000)
RemainingMinutes(unblockTime, t) == Ceil(unblockTime - t, MsPerMinute)

\* what a run of spamProtection leaves behind: the two maps, and either a 429
\* response (error "blocked": 'You have been temporarily blocked ...', error
\* "spam": 'Too many requests! ...') or the call of next() (status 0: no
\* response written yet)
Outcome(ct, b, status, error, minutes) ==
    [clickTracker |-> ct, blockedIPs |-> b, status |-> status, error |-> error,
     remainingMinutes |-> minutes, next |-> (status = 0)]

EscalateKeepsEntry(ct, b, ip, t) ==
    Outcome(ct, BlockedSet(b, ip, t + blockDuration), 429, "spam", EscalationMinutes)

\* the escalation branch: block the key and drop its click entry
Escalate(ct, b, ip, t) ==
    Outcome(TrackerDelete(ct, ip), BlockedSet(b, ip, t + blockDuration),
            429, "spam", EscalationMinutes)

TrackClicksResetToZero(ct, b, ip, t) ==
    IF ip \notin DOMAIN ct
    THEN Outcome(TrackerSet(ct, ip, 1, t), b, 0, "", 0)
    ELSE IF WindowElapsed(t, ct[ip].firstClick)
         THEN Outcome(TrackerSet(ct, ip, 1, 0), b, 0, "", 0)
         ELSE LET data == TrackerSet(ct, ip, ct[ip].clicks + 1, ct[ip].firstClick)
              IN  IF OverLimit(data[ip].clicks)
                  THEN Escalate(data, b, ip, t)
                  ELSE Outcome(data, b, 0, "", 0)

\* "Track clicks"
TrackClicks(ct, b, ip, t) ==
    IF ip \notin DOMAIN ct
    THEN Outcome(TrackerSet(ct, ip, 1, t), b, 0, "", 0)
    ELSE IF WindowElapsed(t, ct[ip].firstClick)
         THEN Outcome(TrackerSet(ct, ip, 1, t), b, 0, "", 0)
         ELSE LET data == TrackerSet(ct, ip, ct[ip].clicks + 1, ct[ip].firstClick)
              IN  IF OverLimit(data[ip].clicks)
                  THEN Escalate(data, b, ip, t)
                  ELSE Outcome(data, b, 0, "", 0)

SpamProtectionExtends(ct, b, ip, t) ==
    IF BlockedHas(b, ip)
    THEN IF BlockActive(t, BlockedTime(b, ip))
         THEN Outcome(ct, BlockedSet(b, ip, t + blockDuration), 429, "blocked",
                      RemainingMinutes(BlockedTime(b, ip), t))
         ELSE TrackClicks(ct, BlockedDelete(b, ip), ip, t)
    ELSE TrackClicks(ct, b, ip, t)

\* "Check if IP is blocked", then "Track clicks"
SpamProtection(ct, b, ip, t) ==
    IF BlockedHas(b, ip)
    THEN IF BlockActive(t, BlockedTime(b, ip))
         THEN Outcome(ct, b, 429, "blocked", RemainingMinutes(BlockedTime(b, ip), t))
         ELSE TrackClicks(ct, BlockedDelete(b, ip), ip, t)
    ELSE TrackClicks(ct, b, ip, t)

\* ------------------------------------------------------- responses
\* op: the route; ip: the caller's key; status 0: handed on by next(), no
\* response written by the modelled code
Response(op, ip, status, error, minutes, cleared, list) ==
    [op |-> op, ip |-> ip, status |-> status, error |-> error,
     remainingMinutes |-> minutes, cleared |-> cleared, list |-> list]

\* the 429 of spamProtection, or its hand-over to next()
SpamResponse(op, ip, r) ==
    Response(op, ip, r.status, r.error, r.remainingMinutes, 0, <<>>)

\* ------------------------------------------------------- cleanupTracker
CleanTrackerAtEnd(ct, t) ==
    [k \in {i \in DOMAIN ct : t - ct[i].firstClick < timeWindow} |-> ct[k]]

\* "Clean click tracker"
CleanTracker(ct, t) ==
    [k \in {i \in DOMAIN ct : ~WindowElapsed(t, ct[i].firstClick)} |-> ct[k]]

BlockExpiredStrict(t, unblockTime) == t > unblockTime

\* now >= unblockTime
BlockExpired(t, unblockTime) == t >= unblockTime

\* ip.substring(...) in the log lines: a TypeError for a key that is no string
HasSubstring(ip) == ip \notin Numeric

\* the places in the iteration over blockedIPs at which the log line throws:
\* the expired entries whose key is no string
ThrowsAt(b, t) ==
    {i \in 1..Len(b) : BlockExpired(t, b[i].unblockTime) /\ ~HasSubstring(b[i].ip)}

\* "Clean expired blocks": the loop deletes the expired entries in the order
\* of the Map and ends where the log line throws, after the delete
CleanBlocks(b, t) ==
    LET last == IF ThrowsAt(b, t) = {} THEN Len(b)
                ELSE CHOOSE i \in ThrowsAt(b, t) : \A j \in ThrowsAt(b, t) : i <= j
    IN  SelectSeq(SubSeq(b, 1, last), LAMBDA e : ~BlockExpired(t, e.unblockTime))
            \o SubSeq(b, last + 1, Len(b))

\* ------------------------------------------------------- admin routes
Unsorted(s) == s

\* blocked.sort((a, b) => new Date(a.unblockTime) - new Date(b.unblockTime)):
\* Array.prototype.sort is stable, equal times keep the Map's insertion order
RECURSIVE SortByUnblockTime(_)
InsertSorted(sorted, e) ==
    LET n == Cardinality({i \in 1..Len(sorted) : sorted[i].unblockTime <= e.unblockTime})
    IN  SubSeq(sorted, 1, n) \o <<e>> \o SubSeq(sorted, n + 1, Len(sorted))
SortByUnblockTime(s) ==
    IF s = <<>> THEN <<>>
    ELSE InsertSorted(SortByUnblockTime(SubSeq(s, 1, Len(s) - 1)), s[Len(s)])

\* GET /api/admin/blocked
BlockedList(b, t) ==
    SortByUnblockTime(
        [i \in 1..Len(b) |->
            [ip |-> b[i].ip, unblockTime |-> b[i].unblockTime,
             remainingMinutes |-> RemainingMinutes(b[i].unblockTime, t)]])

ManualUnblockTimeSeconds(t, duration) == t + (duration * 1000)

\* POST /api/admin/block: Date.now() + (duration * 60 * 1000)
ManualUnblockTime(t, duration) == t + (duration * 60 * 1000)

\* POST /api/admin/block: blockedIPs.set(ip, unblockTime)
ManualBlock(b, ip, t, duration) == BlockedSet(b, ip, ManualUnblockTime(t, duration))

ManualUnblockFirst(b, ip) == IF b = <<>> THEN b ELSE Tail(b)

\* POST /api/admin/unblock: blockedIPs.delete(ip)
ManualUnblock(b, ip) == BlockedDelete(b, ip)

BlockedClearFirst(b) == IF b = <<>> THEN b ELSE Tail(b)

\* POST /api/admin/clear-blocks: blockedIPs.clear()
BlockedClear(b) == <<>>

\* ------------------------------------------------------- observations
\* the entries of s not older than timeWindow at time t
Within(s, t) == SelectSeq(s, LAMBDA x : t - x <= timeWindow)

\* the last n entries of s
LastN(s, n) == IF Len(s) > n THEN SubSeq(s, Len(s) - n + 1, Len(s)) ELSE s

\* s with the time t added, cut to the entries that share an interval of
\* length timeWindow with t, and to the latest n of those
Note(s, t, n) == LastN(Within(Append(s, t), t), n)

NoAnswer == [at |-> -1, unblockTime |-> 0, remainingMinutes |-> 0]

\* no cleanupTracker run has just ended
NoSweep == [windows |-> {}, blocks |-> {}]

\* lastStart after a step that leaves the click entries ct: a firstClick
\* other than the latest one noted is that of a new WindowEntry
Started(ct) ==
    IF probe = "starts"
    THEN [k \in Keys |->
            IF k \in DOMAIN ct
               /\ (lastStart[k] = <<>> \/ lastStart[k][Len(lastStart[k])] # ct[k].firstClick)
            THEN LastN(Append(lastStart[k], ct[k].firstClick), 2)
            ELSE lastStart[k]]
    ELSE lastStart

\* the answer kept for key k while the block entry it reported still stands in b
StillBlocked(a, b, k) ==
    IF a # NoAnswer /\ BlockedHas(b, k) /\ BlockedTime(b, k) = a.unblockTime
    THEN a ELSE NoAnswer

\* a run of spamProtection for `ip` with outcome r, followed by an admin
\* handler that wrote the block entries of the keys in `touched`;
\* `created`: a block entry was written, `cleared`: clear-blocks ran
Observe(ip, r, touched, created, cleared) ==
    /\ UNCHANGED <<probe, named>>
    /\ arrivals' =
         IF probe = "arrivals" /\ r.error # "blocked"
         THEN [arrivals EXCEPT ![ip] = Note(@, now, maxClicks + 1)]
         ELSE arrivals
    /\ admits' =
         IF probe = "admits"
         THEN [k \in Keys |->
                 IF k \in touched THEN <<>>
                 ELSE IF k = ip /\ r.next THEN Note(admits[k], now, 2 * maxClicks)
                 ELSE admits[k]]
         ELSE admits
    /\ firstBlocked' =
         IF probe = "blocked"
         THEN [k \in Keys |->
                 IF /\ k = ip
                    /\ r.error = "blocked"
                    /\ StillBlocked(firstBlocked[k], blockedIPs, k) = NoAnswer
                 THEN [at |-> now, unblockTime |-> BlockedTime(blockedIPs, ip),
                       remainingMinutes |-> r.remainingMinutes]
                 ELSE StillBlocked(firstBlocked[k], blockedIPs', k)]
         ELSE firstBlocked
    /\ clearedSince' =
         IF probe = "cleared"
         THEN IF created \/ r.error = "spam" THEN -1
              ELSE IF cleared THEN Len(r.blockedIPs) ELSE clearedSince
         ELSE clearedSince
    /\ unblocked' =
         IF probe = "unblocked"
         THEN IF created THEN unblocked \ ({ip} \cup touched)
              ELSE IF cleared THEN unblocked \ {ip}
              ELSE (unblocked \ {ip}) \cup touched
         ELSE unblocked
    /\ swept' = NoSweep
    /\ lastStart' = Started(clickTracker')
    /\ UNCHANGED <<queue, calls, turn, req, stats, passed, cobalt>>

\* the request `op` of `caller` (naming `ip` and `duration` in its body)
\* handled on the maps that no cleanupTracker run has touched
Lazy(op, caller, ip, duration) ==
    IF probe # "lazy" THEN UNCHANGED <<lazyTracker, lazyBlocked>>
    ELSE LET r == SpamProtection(lazyTracker, lazyBlocked, caller, now)
         IN  /\ lazyTracker' = r.clickTracker
             /\ lazyBlocked' =
                   IF ~r.next THEN r.blockedIPs
                   ELSE IF op = "block" THEN ManualBlock(r.blockedIPs, ip, now, duration)
                   ELSE IF op = "unblock" THEN ManualUnblock(r.blockedIPs, ip)
                   ELSE IF op = "clear" THEN BlockedClear(r.blockedIPs)
                   ELSE r.blockedIPs

\* a step without a run of spamProtection: the clock went on to t, or the
\* janitor left the block entries b, having deleted the keys in s
Unobserved(t, b, s) ==
    /\ UNCHANGED <<probe, named>>
    /\ swept' = IF probe = "swept" THEN s ELSE swept
    /\ UNCHANGED <<lazyTracker, lazyBlocked, queue, calls, turn>>
    /\ lastStart' = Started(clickTracker')
    /\ UNCHANGED <<req, stats, passed, cobalt>>
    /\ arrivals' = [k \in Keys |-> Within(arrivals[k], t)]
    /\ admits' = [k \in Keys |-> Within(admits[k], t)]
    /\ firstBlocked' = [k \in Keys |-> StillBlocked(firstBlocked[k], b, k)]
    /\ UNCHANGED <<clearedSince, unblocked>>

\* ------------------------------------------------------- initial state
NoResponse == Response("none", "", 0, "", 0, 0, <<>>)

\* no request received yet / getCobaltDownloadUrl not called yet
NoRequest == [xff |-> <<>>, realIp |-> <<>>, remote |-> <<>>, reqIp |-> <<>>]
NoRun == [state |-> "idle", i |-> 0, lastError |-> "null", answers |-> <<>>,
          url |-> "", message |-> ""]

Start(p, n) ==
    /\ now = 0
    /\ advances = 0
    /\ clickTracker = <<>>
    /\ blockedIPs = <<>>
    /\ pending = {}
    /\ res = NoResponse
    /\ named = n
    /\ probe = p
    /\ arrivals = [k \in Keys |-> <<>>]
    /\ admits = [k \in Keys |-> <<>>]
    /\ firstBlocked = [k \in Keys |-> NoAnswer]
    /\ clearedSince = -1
    /\ unblocked = {}
    /\ swept = NoSweep
    /\ lazyTracker = <<>>
    /\ lazyBlocked = <<>>
    /\ queue = <<>>
    /\ calls = <<>>
    /\ turn = 0
    /\ lastStart = [k \in Keys |-> <<>>]
    /\ req = NoRequest
    /\ stats = [totalRequests |-> 0, totalDownloads |-> 0, totalInfoRequests |-> 0]
    /\ passed = 0
    /\ cobalt = NoRun

Init == Start("none", Keys)

\* ------------------------------------------------------- actions
\* Date.now() moves on between two handler runs
Advance(d) ==
    /\ advances < MaxAdvances
    /\ now' = now + d
    /\ advances' = advances + 1
    /\ UNCHANGED <<clickTracker, blockedIPs, pending, res>>
    /\ Unobserved(now', blockedIPs, NoSweep)

\* a request to an /api/ route whose handler touches neither map
\* (/api/info, /api/download, /api/health): spamProtection only
Request(ip) ==
    LET r == SpamProtection(clickTracker, blockedIPs, ip, now)
    IN  /\ clickTracker' = r.clickTracker
        /\ blockedIPs' = r.blockedIPs
        /\ res' = SpamResponse("request", ip, r)
        /\ Observe(ip, r, {}, FALSE, FALSE)
        /\ Lazy("request", ip, ip, 0)
        /\ UNCHANGED <<now, advances, pending>>

\* GET /api/admin/blocked arrives: spamProtection, then express.static
\* looks the path up on disk before the route runs
GetBlocked(ip) ==
    LET r == SpamProtection(clickTracker, blockedIPs, ip, now)
    IN  /\ Cardinality(pending) < MaxPending
        /\ clickTracker' = r.clickTracker
        /\ blockedIPs' = r.blockedIPs
        /\ res' = SpamResponse("getBlocked", ip, r)
        /\ pending' = IF r.next THEN pending \cup {[ip |-> ip, route |-> "blocked"]}
                      ELSE pending
        /\ Observe(ip, r, {}, FALSE, FALSE)
        /\ Lazy("getBlocked", ip, ip, 0)
        /\ UNCHANGED <<now, advances>>

\* the route handler of GET /api/admin/blocked
ListBlocked(p) ==
    /\ p \in pending
    /\ p.route = "blocked"
    /\ pending' = pending \ {p}
    /\ res' = Response("listBlocked", p.ip, 200, "", 0, 0, BlockedList(blockedIPs, now))
    /\ UNCHANGED <<now, advances, clickTracker, blockedIPs>>
    /\ Unobserved(now, blockedIPs, NoSweep)

\* POST /api/admin/block { ip, duration } sent by `caller`; 400 for a body
\* without ip; the log line after blockedIPs.set throws for a key that is no
\* string: 500, entry kept
AdminBlock(caller, ip, duration) ==
    LET r == SpamProtection(clickTracker, blockedIPs, caller, now)
    IN  /\ clickTracker' = r.clickTracker
        /\ IF r.next /\ ip = Missing
           THEN /\ blockedIPs' = r.blockedIPs
                /\ res' = Response("block", caller, 400, "", 0, 0, <<>>)
                /\ Observe(caller, r, {}, FALSE, FALSE)
           ELSE IF r.next
           THEN /\ blockedIPs' = ManualBlock(r.blockedIPs, ip, now, duration)
                /\ res' = Response("block", caller, IF HasSubstring(ip) THEN 200 ELSE 500,
                                   "", 0, 0, <<>>)
                /\ Observe(caller, r, {ip}, TRUE, FALSE)
           ELSE /\ blockedIPs' = r.blockedIPs
                /\ res' = SpamResponse("block", caller, r)
                /\ Observe(caller, r, {}, FALSE, FALSE)
        /\ Lazy("block", caller, ip, duration)
        /\ UNCHANGED <<now, advances, pending>>

\* POST /api/admin/unblock { ip } sent by `caller`; 400 for a body without
\* ip; the log line after blockedIPs.delete throws for a key that is no
\* string: 500, entry deleted
AdminUnblock(caller, ip) ==
    LET r == SpamProtection(clickTracker, blockedIPs, caller, now)
    IN  /\ clickTracker' = r.clickTracker
        /\ IF r.next /\ ip = Missing
           THEN /\ blockedIPs' = r.blockedIPs
                /\ res' = Response("unblock", caller, 400, "", 0, 0, <<>>)
                /\ Observe(caller, r, {}, FALSE, FALSE)
           ELSE IF r.next
           THEN IF BlockedHas(r.blockedIPs, ip)
                THEN /\ blockedIPs' = ManualUnblock(r.blockedIPs, ip)
                     /\ res' = Response("unblock", caller,
                                        IF HasSubstring(ip) THEN 200 ELSE 500, "", 0, 0, <<>>)
                     /\ Observe(caller, r, {ip}, FALSE, FALSE)
                ELSE /\ blockedIPs' = r.blockedIPs
                     /\ res' = Response("unblock", caller, 404, "", 0, 0, <<>>)
                     /\ Observe(caller, r, {}, FALSE, FALSE)
           ELSE /\ blockedIPs' = r.blockedIPs
                /\ res' = SpamResponse("unblock", caller, r)
                /\ Observe(caller, r, {}, FALSE, FALSE)
        /\ Lazy("unblock", caller, ip, 0)
        /\ UNCHANGED <<now, advances, pending>>

\* POST /api/admin/clear-blocks sent by `caller`
ClearBlocks(caller) ==
    LET r == SpamProtection(clickTracker, blockedIPs, caller, now)
    IN  /\ clickTracker' = r.clickTracker
        /\ IF r.next
           THEN /\ blockedIPs' = BlockedClear(r.blockedIPs)
                /\ res' = Response("clear", caller, 200, "", 0, Len(r.blockedIPs), <<>>)
                /\ Observe(caller, r, {k \in Keys : BlockedHas(r.blockedIPs, k)}, FALSE, TRUE)
           ELSE /\ blockedIPs' = r.blockedIPs
                /\ res' = SpamResponse("clear", caller, r)
                /\ Observe(caller, r, {}, FALSE, FALSE)
        /\ Lazy("clear", caller, caller, 0)
        /\ UNCHANGED <<now, advances, pending>>

\* a run of the setInterval(cleanupTracker, ...) timer
Cleanup ==
    /\ clickTracker' = CleanTracker(clickTracker, now)
    /\ blockedIPs' = CleanBlocks(blockedIPs, now)
    /\ UNCHANGED <<now, advances, pending, res>>
    /\ Unobserved(now, blockedIPs',
                  [windows |-> (DOMAIN clickTracker) \ (DOMAIN clickTracker'),
                   blocks |-> {blockedIPs[i].ip : i \in 1..Len(blockedIPs)}
                                 \ {blockedIPs'[i].ip : i \in 1..Len(blockedIPs')}])

Next ==
    \/ \E d \in Deltas : Advance(d)
    \/ \E ip \in Clients : Request(ip)
    \/ \E ip \in Operators : GetBlocked(ip)
    \/ \E p \in pending : ListBlocked(p)
    \/ \E caller \in Operators, ip \in named, duration \in Durations :
          AdminBlock(caller, ip, duration)
    \/ \E caller \in Operators, ip \in named : AdminUnblock(caller, ip)
    \/ \E caller \in Operators : ClearBlocks(caller)
    \/ Cleanup

Spec == Init /\ [][Next]_vars

\* the same program with one observation recorded; where the observation
\* grows with every request, operators name the sending keys only
SpecArrivals == Start("arrivals", Senders) /\ [][Next]_vars
SpecAdmits == Start("admits", Senders) /\ [][Next]_vars
SpecBlocked == Start("blocked", Senders) /\ [][Next]_vars
SpecCleared == Start("cleared", Keys) /\ [][Next]_vars
SpecUnblocked == Start("unblocked", Senders) /\ [][Next]_vars

SpecLazy == Start("lazy", Senders) /\ [][Next]_vars
SpecStarts == Start("starts", Senders) /\ [][Next]_vars

\* the operators post bodies that name a client, a number, or no ip
SpecErrors == Start("none", Clients \cup Numeric \cup {Missing}) /\ [][Next]_vars

\* the cleanup timer keeps firing (setInterval; an error thrown by a run goes
\* to process.on('uncaughtException') and the interval stays armed); the
\* operators name a key that is no string
SpecJanitor ==
    /\ Start("swept", Numeric)
    /\ [][Next]_vars
    /\ WF_vars(Cleanup)

\* ------------------------------------------------------- getClientIP
\* the actions of the sections below leave the observations alone
Quiet ==
    UNCHANGED <<probe, named, arrivals, admits, firstBlocked, clearedSince, unblocked,
                swept, lazyTracker, lazyBlocked, queue, calls, turn, lastStart>>

\* A header value or an address is the sequence of its characters, so that
\* split and trim are computed; `Undefined` stands for a header or a
\* property that is absent.
Undefined == <<"undefined">>

\* the literal 'unknown'
Unknown == <<"u", "n", "k", "n", "o", "w", "n">>

\* values of the x-forwarded-for header in the runs explored
Forwarded ==
    { Undefined, <<>>, <<" ">>, <<"a">>, <<"b">>, <<" ", "a", " ">>,
      <<"a", ",", "b">>, <<"b", ",", " ", "a">>, <<" ", ",", "a">>, <<",", "a">> }

\* the requests explored: x-forwarded-for, x-real-ip, the address of the
\* socket, and req.ip
Requests ==
    [xff : Forwarded, realIp : {Undefined, <<>>, <<"r">>},
     remote : {Undefined, <<"s">>}, reqIp : {Undefined, <<"t">>}]

\* what || passes over: undefined and the empty string
Falsy(v) == v = Undefined \/ v = <<>>

\* s.split(',')[0]
FirstElement(s) ==
    LET commas == {i \in 1..Len(s) : s[i] = ","}
    IN  IF commas = {} THEN s
        ELSE SubSeq(s, 1, (CHOOSE i \in commas : \A j \in commas : i <= j) - 1)

\* s.trim()
RECURSIVE TrimStart(_)
TrimStart(s) == IF s # <<>> /\ Head(s) = " " THEN TrimStart(Tail(s)) ELSE s
RECURSIVE TrimEnd(_)
TrimEnd(s) ==
    IF s # <<>> /\ s[Len(s)] = " " THEN TrimEnd(SubSeq(s, 1, Len(s) - 1)) ELSE s
Trim(s) == TrimEnd(TrimStart(s))

\* req.headers['x-forwarded-for']?.split(',')[0]?.trim()
ForwardedFor(q) == IF q.xff = Undefined THEN Undefined ELSE Trim(FirstElement(q.xff))

getClientIPSocketFirst(q) ==
    IF ~Falsy(q.remote) THEN q.remote
    ELSE IF ~Falsy(ForwardedFor(q)) THEN ForwardedFor(q)
    ELSE IF ~Falsy(q.realIp) THEN q.realIp
    ELSE IF ~Falsy(q.reqIp) THEN q.reqIp
    ELSE Unknown

getClientIPNoDefault(q) ==
    IF ~Falsy(ForwardedFor(q)) THEN ForwardedFor(q)
    ELSE IF ~Falsy(q.realIp) THEN q.realIp
    ELSE IF ~Falsy(q.remote) THEN q.remote
    ELSE q.reqIp

\* getClientIP(req)
getClientIP(q) ==
    IF ~Falsy(ForwardedFor(q)) THEN ForwardedFor(q)
    ELSE IF ~Falsy(q.realIp) THEN q.realIp
    ELSE IF ~Falsy(q.remote) THEN q.remote
    ELSE IF ~Falsy(q.reqIp) THEN q.reqIp
    ELSE Unknown

\* the keys that hold an entry in one of the maps
Buckets(ct, b) == (DOMAIN ct) \cup {b[i].ip : i \in 1..Len(b)}

\* a request under /api/ with the headers and addresses q: getClientIP, then
\* spamProtection; the log lines of the two 429 answers call ip.substring,
\* a TypeError for a key that is undefined, which Express answers with 500
\* after the writes of the statements before the log line
Receive(q) ==
    LET ip == getClientIP(q)
        r == SpamProtection(clickTracker, blockedIPs, ip, now)
    IN  /\ Cardinality(Buckets(clickTracker, blockedIPs) \cup {ip}) <= MaxBuckets
        /\ clickTracker' = r.clickTracker
        /\ blockedIPs' = r.blockedIPs
        /\ res' = IF ip = Undefined /\ r.status = 429
                  THEN Response("receive", ip, 500, "TypeError", 0, 0, <<>>)
                  ELSE SpamResponse("receive", ip, r)
        /\ req' = q
        /\ UNCHANGED <<now, advances, pending, stats, passed, cobalt>>
        /\ Quiet

\* the clock stands still here: the key of a request does not depend on it
NextHeaders == \E q \in Requests : Receive(q)

SpecHeaders == Init /\ [][NextHeaders]_vars

\* ------------------------------------------------------- routing
\* the layers app.get / app.post / app.use put on the router's stack after
\* express.static, in the order of the calls; a path is the sequence of its
\* segments; `ends`: the handler answers and never calls next()
Layer(verb, path, name, ends) == [verb |-> verb, path |-> path, name |-> name, ends |-> ends]
Stack ==
    << Layer("GET",  <<"api", "info">>,                  "info",        TRUE),
       Layer("GET",  <<"api", "download">>,              "download",    TRUE),
       Layer("GET",  <<"api", "status">>,                "status",      TRUE),
       Layer("GET",  <<"api", "health">>,                "health",      TRUE),
       Layer("use",  <<"api", "info">>,                  "countInfo",   FALSE),
       Layer("use",  <<"api", "download">>,              "countDownload", FALSE),
       Layer("GET",  <<"api", "admin", "stats">>,        "stats",       TRUE),
       Layer("GET",  <<"api", "admin", "blocked">>,      "blocked",     TRUE),
       Layer("POST", <<"api", "admin", "unblock">>,      "unblock",     TRUE),
       Layer("GET",  <<"api", "admin", "sessions">>,     "sessions",    TRUE),
       Layer("GET",  <<"api", "admin", "activity">>,     "activity",    TRUE),
       Layer("POST", <<"api", "admin", "block">>,        "block",       TRUE),
       Layer("POST", <<"api", "admin", "clear-blocks">>, "clear",       TRUE),
       Layer("use",  <<"api">>,                          "notFound",    TRUE) >>

\* a layer of app.use matches the paths under its own, a route its own path
\* and its own method
Matches(layer, method, path) ==
    IF layer.verb = "use"
    THEN Len(path) >= Len(layer.path) /\ SubSeq(path, 1, Len(layer.path)) = layer.path
    ELSE layer.verb = method /\ path = layer.path

\* the layers a request runs through: the matching ones, in the order of
\* the stack, up to the first that answers
Travel(method, path) ==
    LET m == SelectSeq(Stack, LAMBDA l : Matches(l, method, path))
        last == CHOOSE i \in 1..Len(m) : m[i].ends /\ \A j \in 1..(i - 1) : ~m[j].ends
    IN  SubSeq(m, 1, last)

\* the paths of the requests explored
Path(route) ==
    CASE route = "info" -> <<"api", "info">>
      [] route = "download" -> <<"api", "download">>
      [] route = "status" -> <<"api", "status">>
      [] route = "stats" -> <<"api", "admin", "stats">>
      [] route = "blocked" -> <<"api", "admin", "blocked">>

\* stats.totalRequests++; stats.totalInfoRequests++ / stats.totalDownloads++
Count(s, name) ==
    IF name = "countInfo"
    THEN [s EXCEPT !.totalRequests = @ + 1, !.totalInfoRequests = @ + 1]
    ELSE IF name = "countDownload"
    THEN [s EXCEPT !.totalRequests = @ + 1, !.totalDownloads = @ + 1]
    ELSE s

\* stats after the layers have run
RECURSIVE Counted(_, _)
Counted(s, layers) ==
    IF layers = <<>> THEN s ELSE Counted(Count(s, Head(layers).name), Tail(layers))

\* the routes whose requests the stats are meant to count
Metered == {"info", "download"}

\* a GET request to `route` arrives: spamProtection, then express.static
\* looks the path up on disk before the layers of the stack run
Get(ip, route) ==
    LET r == SpamProtection(clickTracker, blockedIPs, ip, now)
    IN  /\ Cardinality(pending) < MaxPending
        /\ route \in Metered => passed < MaxCounted
        /\ clickTracker' = r.clickTracker
        /\ blockedIPs' = r.blockedIPs
        /\ res' = SpamResponse("get", ip, r)
        /\ pending' = IF r.next THEN pending \cup {[ip |-> ip, route |-> route]}
                      ELSE pending
        /\ passed' = IF r.next /\ route \in Metered THEN passed + 1 ELSE passed
        /\ UNCHANGED <<now, advances, req, stats, cobalt>>
        /\ Quiet

\* the layers run for a waiting GET request to /api/info, /api/download or
\* /api/admin/stats; the answer of the first two depends on the video
\* service (400, 200 or 500)
Serve(p, status) ==
    LET layers == Travel("GET", Path(p.route))
        name == layers[Len(layers)].name
    IN  /\ p \in pending
        /\ p.route \in Metered \cup {"stats"}
        /\ p.route = "stats" => status = 200
        /\ pending' = pending \ {p}
        /\ stats' = Counted(stats, layers)
        /\ res' = Response(name, p.ip, status, "", 0, 0,
                           IF name = "stats" THEN <<stats'>> ELSE <<>>)
        /\ UNCHANGED <<now, advances, clickTracker, blockedIPs, req, passed, cobalt>>
        /\ Quiet

\* a POST request to /api/info or /api/download: spamProtection and the
\* layers run in one turn (express.static passes it on at once)
Post(ip, route) ==
    LET r == SpamProtection(clickTracker, blockedIPs, ip, now)
        layers == Travel("POST", Path(route))
    IN  /\ route \in Metered
        /\ stats.totalRequests < MaxCounted
        /\ clickTracker' = r.clickTracker
        /\ blockedIPs' = r.blockedIPs
        /\ IF r.next
           THEN /\ stats' = Counted(stats, layers)
                /\ res' = Response(layers[Len(layers)].name, ip, 404, "", 0, 0, <<>>)
           ELSE /\ stats' = stats
                /\ res' = SpamResponse("post", ip, r)
        /\ UNCHANGED <<now, advances, pending, req, passed, cobalt>>
        /\ Quiet

NextStats ==
    \/ \E d \in Deltas : Advance(d)
    \/ \E ip \in Clients, route \in Metered \cup {"stats"} : Get(ip, route)
    \/ \E p \in pending, status \in {200, 400, 500} : Serve(p, status)
    \/ \E ip \in Clients, route \in Metered : Post(ip, route)
    \/ Cleanup

SpecStats == Init /\ [][NextStats]_vars

\* ------------------------------------------------------- /api/status
StatusReportNoCount(ct, b, ip) == [isBlocked |-> BlockedHas(b, ip), clicksInWindow |-> 0]

\* GET /api/status: isBlocked = blockedIPs.has(ip); clicksInWindow:
\* clickData?.clicks || 0
StatusReport(ct, b, ip) ==
    [isBlocked |-> BlockedHas(b, ip),
     clicksInWindow |-> IF ip \in DOMAIN ct THEN ct[ip].clicks ELSE 0]

\* GET /api/status arrives: spamProtection, then express.static looks the
\* path up on disk before the route runs (seen: the WindowEntry of the key
\* as the admission check leaves it, kept for the properties)
GetStatus(ip) ==
    LET r == SpamProtection(clickTracker, blockedIPs, ip, now)
    IN  /\ Cardinality(pending) < MaxPending
        /\ clickTracker' = r.clickTracker
        /\ blockedIPs' = r.blockedIPs
        /\ res' = SpamResponse("getStatus", ip, r)
        /\ pending' = IF r.next
                      THEN pending \cup {[ip |-> ip, route |-> "status",
                                          seen |-> r.clickTracker[ip]]}
                      ELSE pending
        /\ Observe(ip, r, {}, FALSE, FALSE)
        /\ Lazy("getStatus", ip, ip, 0)
        /\ UNCHANGED <<now, advances>>

\* the route handler of GET /api/status
ServeStatus(p) ==
    /\ p \in pending
    /\ p.route = "status"
    /\ pending' = pending \ {p}
    /\ res' = Response("status", p.ip, 200, "", 0, 0,
                       <<StatusReport(clickTracker, blockedIPs, p.ip)>>)
    /\ UNCHANGED <<now, advances, clickTracker, blockedIPs>>
    /\ Unobserved(now, blockedIPs, NoSweep)

\* the status requests of the clients among their other requests, the
\* manual blocks of the operators and the runs of the cleanup timer
NextStatus ==
    \/ \E d \in Deltas : Advance(d)
    \/ \E ip \in Clients : Request(ip)
    \/ \E ip \in Clients : GetStatus(ip)
    \/ \E p \in pending : ServeStatus(p)
    \/ \E caller \in Operators, ip \in named, duration \in Durations :
          AdminBlock(caller, ip, duration)
    \/ Cleanup

SpecStatus == Start("none", Clients) /\ [][NextStatus]_vars

\* ------------------------------------------- getCobaltDownloadUrl
\* COBALT_INSTANCES.length
Instances == 3

\* lastError = null
Null == "null"

\* a response without the field, or with an empty one
NoUrl == ""

\* what an instance may answer to the POST: fetch or response.json() throws
\* an error with the message msg, or the JSON data carries a status, maybe a
\* url, maybe a picker[0].url, maybe an error.code
Thrown(msg) ==
    [kind |-> "throw", status |-> "", url |-> NoUrl, picker |-> NoUrl, code |-> "", msg |-> msg]
Data(status, url, picker, code) ==
    [kind |-> "json", status |-> status, url |-> url, picker |-> picker, code |-> code, msg |-> ""]
Answers ==
    { Thrown("fetch failed"), Thrown(""),
      Data("error", NoUrl, NoUrl, "error.api.unreachable"), Data("error", NoUrl, NoUrl, ""),
      Data("error", "u", NoUrl, ""),
      Data("tunnel", "u", NoUrl, ""), Data("redirect", NoUrl, NoUrl, ""),
      Data("picker", NoUrl, "p", ""), Data("picker", "u", NoUrl, ""),
      Data("picker", NoUrl, NoUrl, ""),
      Data("other", "u", NoUrl, ""), Data("other", NoUrl, NoUrl, "") }

\* the `quality` argument: 'highest', another string, or a value without
\* replace (an array of a repeated query parameter)
Qualities == {"highest", "720p", "list"}

\* getCobaltDownloadUrl is called: requestBody is built (quality.replace
\* throws for a value that is no string), lastError = null
Call(quality) ==
    /\ cobalt.state # "running"
    /\ cobalt' = IF quality = "list"
                 THEN [NoRun EXCEPT !.state = "thrown",
                                    !.message = "quality.replace is not a function"]
                 ELSE [NoRun EXCEPT !.state = "running", !.i = 1, !.lastError = Null]
    /\ UNCHANGED <<now, advances, clickTracker, blockedIPs, pending, res, req, stats, passed>>
    /\ Quiet

\* one turn of the loop: the instance cobalt.i answers a
Try(a) ==
    LET continue(lastError) ==
            [cobalt EXCEPT !.i = @ + 1, !.lastError = lastError, !.answers = Append(@, a)]
        return(url) ==
            [cobalt EXCEPT !.state = "returned", !.url = url, !.answers = Append(@, a)]
    IN  /\ cobalt.state = "running"
        /\ cobalt.i <= Instances
        /\ cobalt' =
             IF a.kind = "throw" THEN continue(a.msg)
             ELSE IF a.status = "error"
                  THEN continue(IF a.code # "" THEN a.code ELSE "Unknown error")
             ELSE IF a.status \in {"redirect", "tunnel", "stream"} THEN return(a.url)
             ELSE IF a.status = "picker" /\ a.picker # NoUrl THEN return(a.picker)
             ELSE IF a.url # NoUrl THEN return(a.url)
             ELSE continue("No download URL in response")
        /\ UNCHANGED <<now, advances, clickTracker, blockedIPs, pending, res, req, stats, passed>>
        /\ Quiet

\* the loop has ended: throw new Error(lastError || 'All Cobalt instances failed')
GiveUp ==
    /\ cobalt.state = "running"
    /\ cobalt.i > Instances
    /\ cobalt' = [cobalt EXCEPT !.state = "thrown",
                                !.message = IF cobalt.lastError \in {Null, ""}
                                            THEN "All Cobalt instances failed"
                                            ELSE cobalt.lastError]
    /\ UNCHANGED <<now, advances, clickTracker, blockedIPs, pending, res, req, stats, passed>>
    /\ Quiet

NextCobalt ==
    \/ \E quality \in Qualities : Call(quality)
    \/ \E a \in Answers : Try(a)
    \/ GiveUp

SpecCobalt == Init /\ [][NextCobalt]_vars

\* ------------------------------------------- spamProtection, by statement
\* the same handlers run statement by statement under the event loop: one
\* callback is on the stack at a time and keeps it until it returns or yields
YieldsMidCheck(pc) == pc \in {"count", "drop"}

\* spamProtection holds no await and no callback of its own: a call that is
\* about to run the statements at `pc` never hands the stack back first
Yields(pc) == FALSE

\* a request has passed the middleware in front of spamProtection
Arrive(ip) ==
    /\ Len(queue) < MaxQueue
    /\ queue' = Append(queue, ip)
    /\ UNCHANGED <<now, advances, clickTracker, blockedIPs, pending, res, calls, turn>>
    /\ UNCHANGED <<probe, named, arrivals, admits, firstBlocked, clearedSince,
                   unblocked, swept, lazyTracker, lazyBlocked, lastStart, req,
                   stats, passed, cobalt>>

\* the event loop calls spamProtection for the oldest waiting request:
\* const ip = getClientIP(req); const now = Date.now();
\* (ct0, b0: the maps as the call finds them, kept for the properties)
Begin ==
    /\ turn = 0
    /\ queue # <<>>
    /\ Len(calls) < MaxCalls
    /\ queue' = Tail(queue)
    /\ calls' = Append(calls, [ip |-> Head(queue), pc |-> "check", t |-> now,
                               data |-> [clicks |-> 0, firstClick |-> 0],
                               ct0 |-> clickTracker, b0 |-> blockedIPs])
    /\ turn' = Len(calls) + 1
    /\ UNCHANGED <<now, advances, clickTracker, blockedIPs, pending, res>>
    /\ UNCHANGED <<probe, named, arrivals, admits, firstBlocked, clearedSince,
                   unblocked, swept, lazyTracker, lazyBlocked, lastStart, req,
                   stats, passed, cobalt>>

\* calls without its i-th element
Returned(i) == SubSeq(calls, 1, i - 1) \o SubSeq(calls, i + 1, Len(calls))

\* the call calls[i] returns: res.status(429).json(...) or next()
Return(i, status, error, minutes) ==
    /\ calls' = Returned(i)
    /\ turn' = 0
    /\ res' = Response("check", calls[i].ip, status, error, minutes, 0, <<>>)

\* the call calls[i] goes on to the statements at pc, with `data` in hand
Goto(i, pc, data) ==
    /\ calls' = [calls EXCEPT ![i].pc = pc, ![i].data = data]
    /\ turn' = IF Yields(pc) THEN 0 ELSE i
    /\ res' = res

\* the next statements of the call calls[i]
Step(i) ==
    LET c == calls[i]
    IN  /\ i \in 1..Len(calls)
        /\ turn \in {0, i}
        /\ \/ /\ c.pc = "check"          \* "Check if IP is blocked"
              /\ clickTracker' = clickTracker
              /\ IF BlockedHas(blockedIPs, c.ip)
                 THEN IF BlockActive(c.t, BlockedTime(blockedIPs, c.ip))
                      THEN /\ blockedIPs' = blockedIPs
                           /\ Return(i, 429, "blocked",
                                     RemainingMinutes(BlockedTime(blockedIPs, c.ip), c.t))
                      ELSE /\ blockedIPs' = BlockedDelete(blockedIPs, c.ip)
                           /\ Goto(i, "track", c.data)
                 ELSE /\ blockedIPs' = blockedIPs
                      /\ Goto(i, "track", c.data)
           \/ /\ c.pc = "track"          \* "Track clicks": has, get, window test
              /\ blockedIPs' = blockedIPs
              /\ IF c.ip \notin DOMAIN clickTracker
                 THEN /\ clickTracker' = TrackerSet(clickTracker, c.ip, 1, c.t)
                      /\ Return(i, 0, "", 0)
                 ELSE IF WindowElapsed(c.t, clickTracker[c.ip].firstClick)
                      THEN /\ clickTracker' = TrackerSet(clickTracker, c.ip, 1, c.t)
                           /\ Return(i, 0, "", 0)
                      ELSE /\ clickTracker' = clickTracker
                           /\ Goto(i, "count", clickTracker[c.ip])
           \/ /\ c.pc = "count"          \* data.clicks++, limit test, blockedIPs.set
              /\ clickTracker' = TrackerSet(clickTracker, c.ip, c.data.clicks + 1,
                                            c.data.firstClick)
              /\ IF OverLimit(c.data.clicks + 1)
                 THEN /\ blockedIPs' = BlockedSet(blockedIPs, c.ip, c.t + blockDuration)
                      /\ Goto(i, "drop", c.data)
                 ELSE /\ blockedIPs' = blockedIPs
                      /\ Return(i, 0, "", 0)
           \/ /\ c.pc = "drop"           \* clickTracker.delete, the 429 answer
              /\ clickTracker' = TrackerDelete(clickTracker, c.ip)
              /\ blockedIPs' = blockedIPs
              /\ Return(i, 429, "spam", EscalationMinutes)
        /\ UNCHANGED <<now, advances, pending, queue>>
        /\ UNCHANGED <<probe, named, arrivals, admits, firstBlocked, clearedSince,
                       unblocked, swept, lazyTracker, lazyBlocked, lastStart, req,
                   stats, passed, cobalt>>

\* the timer calls cleanupTracker: const now = Date.now(); "Clean click tracker"
JanitorWindows ==
    /\ turn = 0
    /\ turn' = -1
    /\ clickTracker' = CleanTracker(clickTracker, now)
    /\ UNCHANGED <<now, advances, blockedIPs, pending, res, queue, calls>>
    /\ UNCHANGED <<probe, named, arrivals, admits, firstBlocked, clearedSince,
                   unblocked, swept, lazyTracker, lazyBlocked, lastStart, req,
                   stats, passed, cobalt>>

\* cleanupTracker goes on: "Clean expired blocks", and returns
JanitorBlocks ==
    /\ turn = -1
    /\ turn' = 0
    /\ blockedIPs' = CleanBlocks(blockedIPs, now)
    /\ UNCHANGED <<now, advances, clickTracker, pending, res, queue, calls>>
    /\ UNCHANGED <<probe, named, arrivals, admits, firstBlocked, clearedSince,
                   unblocked, swept, lazyTracker, lazyBlocked, lastStart, req,
                   stats, passed, cobalt>>

\* Date.now() does not move while cleanupTracker is on the stack (it reads
\* the clock once); it may move between the statements of a request
Tick(d) == turn # -1 /\ Advance(d)

NextSteps ==
    \/ \E d \in Deltas : Tick(d)
    \/ \E ip \in Senders : Arrive(ip)
    \/ Begin
    \/ \E i \in 1..Len(calls) : Step(i)
    \/ JanitorWindows
    \/ JanitorBlocks

SpecSteps == Init /\ [][NextSteps]_vars

\* ------------------------------------------------------- properties
\* this step is a request of key ip passing through spamProtection
SpamRun(ip) ==
    \/ ip \in Clients /\ Request(ip)
    \/ /\ ip \in Operators
       /\ \/ GetBlocked(ip)
          \/ \E k \in Keys, d \in Durations : AdminBlock(ip, k, d)
          \/ \E k \in Keys : AdminUnblock(ip, k)
          \/ ClearBlocks(ip)

\* key ip holds a BlockEntry / a WindowEntry
HasBlock(ip) == \E i \in 1..Len(blockedIPs) : blockedIPs[i].ip = ip
HasWindow(ip) == ip \in DOMAIN clickTracker

\* key ip holds a BlockEntry whose unblockAt has passed / a WindowEntry whose
\* window has elapsed: what a cleanupTracker run deletes
ExpiredBlock(ip) ==
    \E i \in 1..Len(blockedIPs) :
        blockedIPs[i].ip = ip /\ now >= blockedIPs[i].unblockTime
StaleWindow(ip) ==
    ip \in DOMAIN clickTracker /\ now - clickTracker[ip].firstClick > timeWindow

\* unblockAt of key ip, which holds a BlockEntry
UnblockAt(ip) == blockedIPs[CHOOSE i \in 1..Len(blockedIPs) : blockedIPs[i].ip = ip].unblockTime

\* C1: no client key ever has a WindowEntry (clickTracker) and a BlockEntry
\* (blockedIPs) at the same time.
C1_NeverBoth == \A k \in Keys : ~(HasWindow(k) /\ HasBlock(k))

\* C2: a request of a key that holds no BlockEntry, and that is at most the
\* maxClicks-th request of its key within timeWindow (requests that were
\* turned away by the block check are not even counted), is passed on by
\* spamProtection: no 429.
C2_FewRequestsAdmitted ==
    [][\A ip \in Keys :
          (SpamRun(ip) /\ ~HasBlock(ip) /\ Len(arrivals'[ip]) <= maxClicks)
              => res'.status # 429]_vars

\* a key has just had its maxClicks-th request of one window admitted, the
\* requests spread over the window
C2_Witness ==
    \E k \in Keys :
        /\ res.ip = k /\ res.status = 0
        /\ Len(arrivals[k]) = maxClicks
        /\ arrivals[k][1] < arrivals[k][maxClicks]
        /\ HasWindow(k) /\ clickTracker[k].clicks = maxClicks

\* C3: a request that reaches the click tracking as the (maxClicks+1)-th of
\* its window (the entry counts maxClicks, now - firstClick <= timeWindow) is
\* answered 429 with remainingMinutes 60, leaves a BlockEntry with
\* unblockAt = now + blockDuration and removes the key's WindowEntry.
C3_ExcessEscalates ==
    [][\A ip \in Keys :
          (/\ SpamRun(ip)
           /\ HasWindow(ip)
           /\ clickTracker[ip].clicks = maxClicks
           /\ now - clickTracker[ip].firstClick <= timeWindow
           /\ ~(HasBlock(ip) /\ now < UnblockAt(ip)))
              => /\ res'.status = 429
                 /\ res'.remainingMinutes = 60
                 /\ \E i \in 1..Len(blockedIPs') :
                       blockedIPs'[i] = [ip |-> ip, unblockTime |-> now + blockDuration]
                 /\ ip \notin DOMAIN clickTracker']_vars

\* a key was escalated at the very end of its window
C3_Witness ==
    \E k \in Keys :
        /\ res.ip = k /\ res.status = 429 /\ res.error = "spam"
        /\ HasBlock(k) /\ UnblockAt(k) = now + blockDuration
        /\ now >= timeWindow
        /\ ~HasWindow(k)

\* C4 as stated: while a key's BlockEntry stands, every request of the key
\* at a time now < unblockAt is rejected as blocked, and the remaining value
\* it reports is strictly smaller than the one reported at any earlier time.
C4_StrictlyDecreasing ==
    [][\A ip \in Keys :
          (SpamRun(ip) /\ HasBlock(ip) /\ now < UnblockAt(ip))
              => /\ res'.status = 429 /\ res'.error = "blocked"
                 /\ (/\ firstBlocked[ip] # NoAnswer
                     /\ firstBlocked[ip].unblockTime = UnblockAt(ip)
                     /\ firstBlocked[ip].at < now)
                       => res'.remainingMinutes < firstBlocked[ip].remainingMinutes]_vars

\* C4 amended: while a key's BlockEntry stands, every request of the key at a
\* time now < unblockAt is rejected as blocked; the remainingMinutes it
\* reports never grows as time advances, and is strictly smaller than the one
\* reported a minute or more earlier.
C4_NeverGrowing ==
    [][\A ip \in Keys :
          (SpamRun(ip) /\ HasBlock(ip) /\ now < UnblockAt(ip))
              => /\ res'.status = 429 /\ res'.error = "blocked"
                 /\ (/\ firstBlocked[ip] # NoAnswer
                     /\ firstBlocked[ip].unblockTime = UnblockAt(ip)
                     /\ firstBlocked[ip].at < now)
                       => /\ res'.remainingMinutes <= firstBlocked[ip].remainingMinutes
                          /\ now - firstBlocked[ip].at >= MsPerMinute
                               => res'.remainingMinutes < firstBlocked[ip].remainingMinutes]_vars

\* a blocked key was answered twice under one BlockEntry, the second time
\* with a smaller remainingMinutes
C4_Witness ==
    \E k \in Keys :
        /\ res.ip = k /\ res.error = "blocked"
        /\ firstBlocked[k] # NoAnswer
        /\ HasBlock(k) /\ firstBlocked[k].unblockTime = UnblockAt(k)
        /\ res.remainingMinutes < firstBlocked[k].remainingMinutes

\* C5: a request of a key whose BlockEntry has run out (now >= unblockAt) is
\* admitted, and the key holds no BlockEntry afterwards, whether the entry
\* came from an escalation or from the admin block route.
C5_AdmittedAfterExpiry ==
    [][\A ip \in Clients :
          (Request(ip) /\ HasBlock(ip) /\ now >= UnblockAt(ip))
              => /\ res'.status # 429
                 /\ ~\E i \in 1..Len(blockedIPs') : blockedIPs'[i].ip = ip]_vars

\* C6: after a successful admin unblock of a key, the next admission check of
\* that key is passed, however the block had been created.
C6_AdmittedAfterUnblock ==
    [][\A ip \in Keys :
          (SpamRun(ip) /\ ip \in unblocked) => res'.status # 429]_vars

\* C7 as stated: the window slides; with no admin operation on the key in
\* between, every interval of length timeWindow holds at most maxClicks
\* admitted requests of one key.
C7_SlidingWindow == \A k \in Keys : Len(admits[k]) <= maxClicks

\* C7 amended: the window is fixed, it starts at the key's firstClick and is
\* replaced by the first request later than firstClick + timeWindow; with no
\* admin operation on the key in between, every interval of length
\* timeWindow holds at most 2 * maxClicks - 1 admitted requests of one key.
C7_FixedWindow == \A k \in Keys : Len(admits[k]) <= 2 * maxClicks - 1

\* 2 * maxClicks - 1 admitted requests of one key lie within timeWindow
C7_Witness ==
    \E k \in Keys :
        /\ Len(admits[k]) = 2 * maxClicks - 1
        /\ admits[k][Len(admits[k])] - admits[k][1] <= timeWindow

\* C8: a request that reaches the click tracking and finds a WindowEntry of
\* its key replaces it by (clicks 1, firstClick now) and is admitted exactly
\* when now - firstClick > timeWindow; when now - firstClick <= timeWindow,
\* equality included, the count of the entry found is incremented instead
\* (and the entry escalated once the count exceeds maxClicks).
C8_ResetOrIncrement ==
    [][\A ip \in Keys :
          (/\ SpamRun(ip)
           /\ HasWindow(ip)
           /\ ~(HasBlock(ip) /\ now < UnblockAt(ip)))
              => LET found == clickTracker[ip]
                     reset == /\ ip \in DOMAIN clickTracker'
                              /\ clickTracker'[ip] = [clicks |-> 1, firstClick |-> now]
                              /\ res'.status # 429
                     incremented ==
                         IF found.clicks + 1 <= maxClicks
                         THEN /\ ip \in DOMAIN clickTracker'
                              /\ clickTracker'[ip] = [clicks |-> found.clicks + 1,
                                                      firstClick |-> found.firstClick]
                              /\ res'.status # 429
                         ELSE /\ ip \notin DOMAIN clickTracker'
                              /\ res'.status = 429
                 IN  IF now - found.firstClick > timeWindow THEN reset
                     ELSE incremented /\ ~reset]_vars

\* a request made exactly timeWindow after the first click was counted in
\* the same window
C8_Witness ==
    \E k \in Keys :
        /\ res.ip = k /\ res.status = 0
        /\ HasWindow(k)
        /\ clickTracker[k].clicks = Len(arrivals[k])
        /\ clickTracker[k].clicks >= 2
        /\ arrivals[k][1] = clickTracker[k].firstClick
        /\ arrivals[k][Len(arrivals[k])] = clickTracker[k].firstClick + timeWindow
        /\ now = clickTracker[k].firstClick + timeWindow

\* C9: a request of a key that holds an unexpired BlockEntry (now <
\* unblockAt) is answered 429 by spamProtection without next(): no route
\* handler under /api/ runs for it, so no admin handler changes blockedIPs
\* and the request does not join the ones waiting for their GET route.
C9_BlockedNeverHandled ==
    [][\A ip \in Keys :
          (SpamRun(ip) /\ HasBlock(ip) /\ now < UnblockAt(ip))
              => /\ res'.status = 429
                 /\ res'.ip = ip
                 /\ blockedIPs' = blockedIPs
                 /\ clickTracker' = clickTracker
                 /\ pending' = pending]_vars

\* an operator whose own key is blocked was turned away from an admin route
C9_Witness ==
    /\ res.status = 429 /\ res.error = "blocked"
    /\ res.op \in {"block", "unblock", "clear", "getBlocked"}
    /\ HasBlock(res.ip) /\ now < UnblockAt(res.ip)

\* C10: clear-blocks deletes every BlockEntry and reports the number of
\* entries its handler found (every entry but the caller's own expired one,
\* which the admission check of the same request has removed); a blocked-list
\* handler that runs after it, with no escalation and no manual block in
\* between, returns the empty list.
C10_ClearThenList ==
    [][/\ \A c \in Operators :
            (ClearBlocks(c) /\ res'.status # 429)
                => /\ blockedIPs' = <<>>
                   /\ res'.status = 200
                   /\ res'.cleared = Cardinality({k \in Keys \ {c} : HasBlock(k)})
       /\ \A p \in pending :
            (ListBlocked(p) /\ clearedSince >= 0) => res'.list = <<>>]_vars

\* the list was requested while blocks stood, clear-blocks removed them, and
\* the list handler then ran
C10_Witness ==
    /\ clearedSince >= 2
    /\ res.op = "listBlocked" /\ res.list = <<>>
    /\ blockedIPs = <<>>

\* C11: an admin unblock that names a key without BlockEntry answers 404 and
\* leaves every BlockEntry as its handler found it; one that names a key
\* with a BlockEntry answers 200 and deletes that entry and no other,
\* whatever its unblockAt.
C11_UnblockExactly ==
    [][\A c \in Operators, k \in Keys :
          LET r == SpamProtection(clickTracker, blockedIPs, c, now)
          IN  (AdminUnblock(c, k) /\ r.next)
                 => IF \E i \in 1..Len(r.blockedIPs) : r.blockedIPs[i].ip = k
                    THEN /\ res'.status = 200
                         /\ blockedIPs' = SelectSeq(r.blockedIPs, LAMBDA e : e.ip # k)
                         /\ Len(blockedIPs') = Len(r.blockedIPs) - 1
                    ELSE /\ res'.status = 404
                         /\ blockedIPs' = r.blockedIPs]_vars

\* an operator unblocked one key while the unexpired BlockEntry of another
\* key stayed at the head of the map
C11_Witness ==
    /\ res.op = "unblock" /\ res.status = 200
    /\ blockedIPs # <<>>
    /\ now < blockedIPs[1].unblockTime

\* C12: a manual block of key K with duration D (a positive number of
\* minutes) leaves exactly one BlockEntry of K, with unblockAt = now + D
\* minutes, whether K had an entry (with an earlier or a later deadline) or
\* not, and leaves the entries of the other keys alone; a request of K at any
\* time before unblockAt is then rejected as blocked.
C12_ManualBlockSets ==
    [][\A c \in Operators, k \in Keys, d \in Durations :
          LET r == SpamProtection(clickTracker, blockedIPs, c, now)
              unblockAt == now + d * MsPerMinute
          IN  (AdminBlock(c, k, d) /\ r.next)
                 => /\ Cardinality({i \in 1..Len(blockedIPs') : blockedIPs'[i].ip = k}) = 1
                    /\ \E i \in 1..Len(blockedIPs') :
                          blockedIPs'[i] = [ip |-> k, unblockTime |-> unblockAt]
                    /\ SelectSeq(blockedIPs', LAMBDA e : e.ip # k)
                          = SelectSeq(r.blockedIPs, LAMBDA e : e.ip # k)
                    /\ \A t \in {now, unblockAt - 1} :
                          SpamProtection(clickTracker', blockedIPs', k, t).error = "blocked"
                    /\ SpamProtection(clickTracker', blockedIPs', k, unblockAt).error # "blocked"]_vars

\* a manual block has overwritten a BlockEntry: the first key of the map
\* holds the deadline now + 1 minute, later than that of a key that entered
\* the map after it
C12_Witness ==
    /\ res.op = "block" /\ res.status = 200
    /\ Len(blockedIPs) >= 2
    /\ blockedIPs[1].unblockTime = now + MsPerMinute
    /\ blockedIPs[2].unblockTime < blockedIPs[1].unblockTime

\* C13: the manual block bypasses the click tracking entirely: a request to
\* the admin block route takes effect (200, BlockEntry written) whatever the
\* click count or block state of any key, the caller's included, and changes
\* no WindowEntry.
C13_BlockBypasses ==
    [][\A c \in Operators, k \in Keys, d \in Durations :
          AdminBlock(c, k, d)
             => /\ res'.status = 200
                /\ \E i \in 1..Len(blockedIPs') :
                      blockedIPs'[i] = [ip |-> k, unblockTime |-> now + d * MsPerMinute]
                /\ clickTracker' = clickTracker]_vars

\* C19: a request that the admission check does not let through is answered
\* 429 with a remainingMinutes that is at least 1 and equals the time from
\* now to the unblockAt of the key's BlockEntry, rounded up to whole minutes.
C19_RejectedWithMinutes ==
    [][\A ip \in Keys :
          (SpamRun(ip) /\ ~SpamProtection(clickTracker, blockedIPs, ip, now).next)
             => /\ res'.status = 429
                /\ res'.ip = ip
                /\ res'.remainingMinutes >= 1
                /\ \E i \in 1..Len(blockedIPs') :
                      /\ blockedIPs'[i].ip = ip
                      /\ LET left == blockedIPs'[i].unblockTime - now
                         IN  /\ (res'.remainingMinutes - 1) * MsPerMinute < left
                             /\ left <= res'.remainingMinutes * MsPerMinute]_vars

\* a blocked key with less than a minute to go was told 1 minute, and a key
\* with a whole number of minutes left was told that number
C19_Witness ==
    /\ res.status = 429 /\ res.error = "blocked"
    /\ \E i \in 1..Len(blockedIPs) :
          /\ blockedIPs[i].ip = res.ip
          /\ blockedIPs[i].unblockTime - now < MsPerMinute
          /\ res.remainingMinutes = 1

C14_SweepExact ==
    [][Cleanup
          => /\ DOMAIN clickTracker'
                   = {k \in DOMAIN clickTracker : ~(now - clickTracker[k].firstClick > timeWindow)}
             /\ \A k \in DOMAIN clickTracker' : clickTracker'[k] = clickTracker[k]
             /\ blockedIPs' = SelectSeq(blockedIPs, LAMBDA e : ~(e.unblockTime <= now))]_vars

\* C16: a cleanupTracker run in which the handling of one entry fails still
\* deletes the other stale WindowEntries and expired BlockEntries: none is
\* left when the run ends (and the timer stays armed for the next run).
C16_FailureContained ==
    [][(Cleanup /\ ThrowsAt(blockedIPs, now) # {})
          => /\ \A k \in DOMAIN clickTracker' :
                   ~(now - clickTracker'[k].firstClick > timeWindow)
             /\ \A i \in 1..Len(blockedIPs') : ~(blockedIPs'[i].unblockTime <= now)]_vars

\* C18: with the cleanup timer firing again and again, a BlockEntry whose
\* unblockAt has passed and a WindowEntry whose window has elapsed do not stay
\* for ever, also when their key sends no request any more.
C18_EventuallySwept ==
    \A k \in Keys \cup Numeric :
        /\ ExpiredBlock(k) ~> ~ExpiredBlock(k)
        /\ StaleWindow(k) ~> ~StaleWindow(k)

\* a cleanupTracker run has just deleted the expired BlockEntry of a key that
\* never sends a request, and a stale WindowEntry
C18_Witness ==
    /\ swept.blocks \cap Numeric # {}
    /\ swept.windows # {}
    /\ \A k \in Keys \cup Numeric : ~ExpiredBlock(k) /\ ~StaleWindow(k)

\* C15: the admission decisions do not depend on the janitor: at every point
\* of every run, a request of any key gets the same answer (passed on, or
\* 429 with the same message and remainingMinutes) from the maps as the
\* cleanupTracker runs have left them and from the maps of the same requests
\* and admin operations handled with no cleanupTracker run at all.
C15_JanitorFree ==
    \A k \in Senders :
        LET swept_ == SpamProtection(clickTracker, blockedIPs, k, now)
            lazy_ == SpamProtection(lazyTracker, lazyBlocked, k, now)
        IN  /\ swept_.status = lazy_.status
            /\ swept_.error = lazy_.error
            /\ swept_.remainingMinutes = lazy_.remainingMinutes

\* a request has been answered while cleanupTracker runs have left both maps
\* different from the maps no run has touched
C15_Witness ==
    /\ probe = "lazy"
    /\ res.op = "request"
    /\ lazyTracker # clickTracker
    /\ lazyBlocked # blockedIPs

\* C17: the admission check of a request runs without yielding.  Two calls
\* in progress for one key never hold the same count read from the key's
\* WindowEntry; a call that returns leaves the maps and gives the answer
\* that the whole check gives on the maps it found when it began, so the
\* requests are handled one at a time in the order of their arrival; and
\* neither a call nor cleanupTracker begins in between the two writes of an
\* escalation (key in blockedIPs and still in clickTracker) or while a call
\* is in progress.
C17_RunToCompletion ==
    /\ [](\A i, j \in 1..Len(calls) :
             (i < j /\ calls[i].ip = calls[j].ip
                    /\ calls[i].pc = "count" /\ calls[j].pc = "count")
                => calls[i].data.clicks # calls[j].data.clicks)
    /\ [][\A i \in 1..Len(calls) :
             (Step(i) /\ Len(calls') < Len(calls))
                => LET c == calls[i]
                       r == SpamProtection(c.ct0, c.b0, c.ip, c.t)
                   IN  /\ clickTracker' = r.clickTracker
                       /\ blockedIPs' = r.blockedIPs
                       /\ res'.ip = c.ip
                       /\ res'.status = r.status
                       /\ res'.error = r.error
                       /\ res'.remainingMinutes = r.remainingMinutes]_vars
    /\ [][(Begin \/ JanitorWindows)
             => /\ calls = <<>>
                /\ \A k \in Keys : ~(HasWindow(k) /\ HasBlock(k))]_vars

\* a request has been escalated by its call while another request of the
\* same key was waiting for its own
C17_Witness ==
    /\ res.op = "check" /\ res.status = 429 /\ res.error = "spam"
    /\ calls = <<>> /\ turn = 0
    /\ queue # <<>> /\ Head(queue) = res.ip
    /\ HasBlock(res.ip) /\ ~HasWindow(res.ip)

\* C21: the stats route reports the requests observed: whenever its handler
\* answers, totalRequests is the number of GET /api/info and GET
\* /api/download requests that spamProtection has passed on since the start,
\* and totalRequests = totalInfoRequests + totalDownloads.
C21_TotalIsPassed ==
    [][\A p \in pending :
          (Serve(p, 200) /\ p.route = "stats")
             => /\ res'.list[1].totalRequests = passed
                /\ res'.list[1].totalRequests
                      = res'.list[1].totalInfoRequests + res'.list[1].totalDownloads]_vars

\* the request q carries no client key: no x-forwarded-for element, no
\* x-real-ip, no socket address, no req.ip
KeyMissing(q) ==
    /\ \/ q.xff = Undefined
       \/ \E n \in 0..Len(q.xff) :
             /\ n = Len(q.xff) \/ q.xff[n + 1] = ","
             /\ \A m \in 1..n : q.xff[m] = " "
    /\ q.realIp \in {Undefined, <<>>}
    /\ q.remote \in {Undefined, <<>>}
    /\ q.reqIp \in {Undefined, <<>>}

\* C22 (the request of a step is the one `req` holds after it): a request
\* without client key is tracked under the key "unknown":
\* spamProtection answers it as it answers any key (next() or 429, no
\* error), counts it in the one WindowEntry of "unknown" that all such
\* requests share, and touches the entry of no other key.
C22_UnknownBucket ==
    [][\A q \in {req'} :
          (Receive(q) /\ KeyMissing(q))
             => /\ res'.ip = Unknown
                /\ res'.status \in {0, 429}
                /\ Buckets(clickTracker', blockedIPs') \ {Unknown}
                      = Buckets(clickTracker, blockedIPs) \ {Unknown}
                /\ IF HasBlock(Unknown)
                   THEN res'.error = "blocked" /\ HasBlock(Unknown)'
                   ELSE IF ~HasWindow(Unknown)
                   THEN /\ res'.status = 0
                        /\ clickTracker'[Unknown] = [clicks |-> 1, firstClick |-> now]
                   ELSE IF clickTracker[Unknown].clicks < maxClicks
                   THEN /\ res'.status = 0
                        /\ clickTracker'[Unknown].clicks = clickTracker[Unknown].clicks + 1
                   ELSE res'.error = "spam" /\ HasBlock(Unknown)']_vars

\* the requests without key have used up the clicks of "unknown"; the one
\* that was escalated carried a x-forwarded-for header with a blank first
\* element
C22_Witness ==
    /\ req.xff = <<" ", ",", "a">>
    /\ res.ip = Unknown /\ res.status = 429 /\ res.error = "spam"
    /\ HasBlock(Unknown) /\ ~HasWindow(Unknown)

\* k is the first comma-separated element of the header h without the
\* blanks around it
IsFirstTrimmed(k, h) ==
    \E a, b \in 0..Len(h) :
        /\ a + Len(k) + b <= Len(h)
        /\ \A i \in 1..a : h[i] = " "
        /\ SubSeq(h, a + 1, a + Len(k)) = k
        /\ \A i \in 1..Len(k) : k[i] # ","
        /\ k # <<>> => k[1] # " " /\ k[Len(k)] # " "
        /\ \A i \in (a + Len(k) + 1)..(a + Len(k) + b) : h[i] = " "
        /\ a + Len(k) + b = Len(h) \/ h[a + Len(k) + b + 1] = ","

\* C25: the key of a request is the trimmed first comma-separated element
\* of x-forwarded-for whenever that is not empty, whatever the socket
\* address; otherwise x-real-ip, then the socket address, then req.ip (then
\* "unknown").  So the request is counted in the bucket of its forwarded
\* value alone: it is rejected as blocked only if that value holds a
\* BlockEntry, and the entries of the socket address and of every other
\* forwarded value stay as they were.
C25_ForwardedFirst ==
    [][\A q \in {req'} :
          Receive(q)
             => LET k == res'.ip
                    forwarded == /\ q.xff # Undefined
                                 /\ \E i, j \in 1..Len(q.xff) :
                                       i <= j /\ IsFirstTrimmed(SubSeq(q.xff, i, j), q.xff)
                IN  /\ forwarded => k # <<>> /\ IsFirstTrimmed(k, q.xff)
                    /\ ~forwarded =>
                          k = IF q.realIp \notin {Undefined, <<>>} THEN q.realIp
                              ELSE IF q.remote \notin {Undefined, <<>>} THEN q.remote
                              ELSE IF q.reqIp \notin {Undefined, <<>>} THEN q.reqIp
                              ELSE Unknown
                    /\ res'.error = "blocked" <=> HasBlock(k)
                    /\ \A o \in Buckets(clickTracker, blockedIPs) \ {k} :
                          /\ HasWindow(o) => HasWindow(o)' /\ clickTracker'[o] = clickTracker[o]
                          /\ HasBlock(o) <=> HasBlock(o)']_vars

\* a request from the socket address s that names b first in its
\* x-forwarded-for header was passed on while the value a, the second
\* element of the header, held a BlockEntry
C25_Witness ==
    /\ req.xff = <<"b", ",", " ", "a">> /\ req.remote = <<"s">>
    /\ res.ip = <<"b">> /\ res.status = 0
    /\ HasBlock(<<"a">>)
    /\ HasWindow(<<"b">>)

\* C23: the firstClick of a key's successive WindowEntries never goes back,
\* whether the later entry replaced the earlier one in place or was created
\* after cleanupTracker or an escalation had deleted it (Date.now() never
\* goes back in the runs explored).
C23_StartsNeverGoBack ==
    \A k \in Keys :
        /\ Len(lastStart[k]) = 2 => lastStart[k][1] <= lastStart[k][2]
        /\ HasWindow(k) /\ probe = "starts"
              => /\ lastStart[k] # <<>>
                 /\ clickTracker[k].firstClick = lastStart[k][Len(lastStart[k])]
                 /\ clickTracker[k].firstClick <= now

\* a key whose first WindowEntry was escalated holds a second one, created
\* after the block had run out
C23_Witness ==
    \E k \in Keys :
        /\ Len(lastStart[k]) = 2
        /\ HasWindow(k) /\ ~HasBlock(k)
        /\ lastStart[k][1] + blockDuration <= lastStart[k][2]
        /\ clickTracker[k].clicks >= 2

\* C24: between two handler runs every WindowEntry counts at least 1 and at
\* most maxClicks clicks: the request that was answered 'Too many requests!'
\* has left no WindowEntry of its key behind.
C24_ClicksInRange ==
    /\ \A k \in DOMAIN clickTracker :
          1 <= clickTracker[k].clicks /\ clickTracker[k].clicks <= maxClicks
    /\ res.error = "spam" => ~HasWindow(res.ip)

\* one key holds a full WindowEntry while the request of another key has
\* just been escalated
C24_Witness ==
    \E k \in Keys :
        /\ HasWindow(k) /\ clickTracker[k].clicks = maxClicks
        /\ res.error = "spam" /\ res.ip # k
        /\ ~HasWindow(res.ip) /\ HasBlock(res.ip)

\* the BlockEntry of key k in the entries b, <<>> if it has none
BlockOf(b, k) == SelectSeq(b, LAMBDA e : e.ip = k)

\* C26: a request that is rejected because its key holds an unexpired
\* BlockEntry changes nothing in the two maps: the unblockAt of the key stays,
\* the key's WindowEntry (if it has one) is neither created nor incremented
\* nor deleted, and the entries of the other keys stay as they were.
C26_RejectionKeepsMaps ==
    [][(res'.error = "blocked" /\ SpamRun(res'.ip))
          => LET ip == res'.ip
             IN  /\ HasBlock(ip) /\ now < UnblockAt(ip)
                 /\ BlockOf(blockedIPs', ip) = BlockOf(blockedIPs, ip)
                 /\ (ip \in DOMAIN clickTracker') <=> HasWindow(ip)
                 /\ HasWindow(ip) => clickTracker'[ip] = clickTracker[ip]
                 /\ \A k \in Keys \ {ip} :
                       /\ BlockOf(blockedIPs', k) = BlockOf(blockedIPs, k)
                       /\ (k \in DOMAIN clickTracker') <=> HasWindow(k)
                       /\ HasWindow(k) => clickTracker'[k] = clickTracker[k]
                 /\ Len(blockedIPs') = Len(blockedIPs)]_vars

\* a key that an operator blocked while it held a WindowEntry was turned
\* away some time later: the entry still counts what it counted, and the
\* operator's own WindowEntry stands
C26_Witness ==
    /\ res.error = "blocked" /\ res.op = "request"
    /\ HasWindow(res.ip) /\ clickTracker[res.ip].clicks = 2
    /\ clickTracker[res.ip].firstClick < now
    /\ \E k \in Keys \ {res.ip} : HasWindow(k)

\* C27: the admission check of a request changes the entries of its own key
\* only: the WindowEntry and the BlockEntry of every other key stay as they
\* were, and so does the answer every other key would get from the check, now
\* and later.
C27_KeyIsolation ==
    [][\A ip \in {res'.ip} \cap Senders :
          (Request(ip) \/ GetBlocked(ip))
             => \A k \in Keys \ {ip} :
                   /\ BlockOf(blockedIPs', k) = BlockOf(blockedIPs, k)
                   /\ (k \in DOMAIN clickTracker') <=> HasWindow(k)
                   /\ HasWindow(k) => clickTracker'[k] = clickTracker[k]
                   /\ \A t \in {now, now + timeWindow + 1, now + blockDuration} :
                         LET before == SpamProtection(clickTracker, blockedIPs, k, t)
                             after == SpamProtection(clickTracker', blockedIPs', k, t)
                         IN  /\ after.status = before.status
                             /\ after.error = before.error
                             /\ after.remainingMinutes = before.remainingMinutes]_vars

\* the request of a client was escalated, which wrote both of its entries,
\* while another key held a WindowEntry and a third one a BlockEntry
C27_Witness ==
    /\ res.op = "request" /\ res.error = "spam"
    /\ HasBlock(res.ip) /\ ~HasWindow(res.ip)
    /\ \E k \in Keys \ {res.ip} : HasWindow(k) /\ ~HasBlock(k)
    /\ \E k \in Keys \ {res.ip} : HasBlock(k) /\ ~HasWindow(k)

\* C28: an admin block request that is answered with an error (400 or 500)
\* leaves the BlockEntries as its handler found them.
C28_ErrorKeepsBlocks ==
    [][\A c \in {res'.ip} \cap Operators :
          (/\ res'.op = "block"
           /\ res'.status \in {400, 500}
           /\ \E k \in named, d \in Durations : AdminBlock(c, k, d))
             => blockedIPs' = SpamProtection(clickTracker, blockedIPs, c, now).blockedIPs]_vars

\* C29 as stated: whenever the handler of GET /api/status answers, the
\* isBlocked it reports is false and the clicksInWindow it reports lies
\* between 1 and maxClicks.
C29_StatusCounted ==
    [][\A p \in pending :
          ServeStatus(p)
             => /\ ~res'.list[1].isBlocked
                /\ 1 <= res'.list[1].clicksInWindow
                /\ res'.list[1].clicksInWindow <= maxClicks]_vars

\* C29 amended: the handler of GET /api/status runs in a later turn than the
\* admission check of its request and reports the maps as they are then:
\* isBlocked tells whether the key holds a BlockEntry, clicksInWindow is the
\* count of the key's WindowEntry (0 if it holds none), between 0 and
\* maxClicks; where the key still holds the WindowEntry that the admission
\* check of the status request counted in, clicksInWindow is at least the
\* count that check left, which is at least 1.
C29_StatusReportsNow ==
    [][\A p \in pending :
          ServeStatus(p)
             => LET a == res'.list[1]
                IN  /\ res'.status = 200
                    /\ a.isBlocked <=> HasBlock(p.ip)
                    /\ a.clicksInWindow
                          = IF HasWindow(p.ip) THEN clickTracker[p.ip].clicks ELSE 0
                    /\ 0 <= a.clicksInWindow /\ a.clicksInWindow <= maxClicks
                    /\ p.seen.clicks >= 1
                    /\ (HasWindow(p.ip)
                          /\ clickTracker[p.ip].firstClick = p.seen.firstClick)
                          => a.clicksInWindow >= p.seen.clicks]_vars

\* the status handler has answered isBlocked true with clicksInWindow 0:
\* between the admission check of the status request and its handler, a
\* further request of the key was escalated
C29_Witness ==
    /\ res.op = "status" /\ res.status = 200
    /\ res.list[1].isBlocked /\ res.list[1].clicksInWindow = 0
    /\ HasBlock(res.ip) /\ UnblockAt(res.ip) = now + blockDuration

\* the answer a carries a download URL / is a failure, with its message
CarriesUrl(a) ==
    /\ a.kind = "json" /\ a.status # "error"
    /\ a.url # NoUrl \/ (a.status = "picker" /\ a.picker # NoUrl)
FailureMessage(a) ==
    IF a.kind = "throw" THEN a.msg
    ELSE IF a.status = "error" THEN (IF a.code # "" THEN a.code ELSE "Unknown error")
    ELSE "No download URL in response"

\* C30: getCobaltDownloadUrl asks the instances in the order of the list,
\* each once; it returns the URL of the first answer that carries one and
\* asks no later instance; an answer with status 'error', a thrown error and
\* an answer without URL are passed over; it throws only after all instances
\* have failed, with the message of the last failure.
C30_FirstWorkingInstance ==
    LET n == Len(cobalt.answers)
        failed(k) == \A j \in 1..k : ~CarriesUrl(cobalt.answers[j])
    IN  /\ cobalt.state = "running" => cobalt.i = n + 1 /\ n <= Instances /\ failed(n)
        /\ cobalt.state = "returned"
              => /\ n >= 1 /\ n <= Instances /\ failed(n - 1)
                 /\ CarriesUrl(cobalt.answers[n])
                 /\ cobalt.url # NoUrl
                 /\ cobalt.url \in {cobalt.answers[n].url, cobalt.answers[n].picker}
        /\ cobalt.state = "thrown"
              => /\ n = Instances /\ failed(n)
                 /\ cobalt.message = FailureMessage(cobalt.answers[n])

====
